---- MODULE Spec2Model ----
(***************************************************************************)
(* A model of SummaryGenerator (src/summary.py): the extractive summarizer *)
(* with its prefix-keyed cache, its short-circuit returns, its exception   *)
(* fallback and the positional fast path.                                  *)
(*                                                                         *)
(* A text is a sequence of one-character strings.  The third-party calls   *)
(* (nltk's sent_tokenize, networkx's pagerank) are modelled by what they   *)
(* return on the texts of the input universe below.                        *)
(***************************************************************************)
EXTENDS Integers, Sequences, FiniteSets, TLC

(***************************************************************************)
(* Program constants                                                       *)
(***************************************************************************)
CacheKeyChars == 1000
MinTextLen == 100
PreprocessLimit == 10000
FewSentences == 3
FallbackSentences == 3
FastFewSentences == 5
DefaultMinSentences == 3
DefaultMaxSentences == 7
DefaultRatioTenths == 3
DefaultNumSentences == 3
\* the largest sentence count of the full matrix, and the window of the banded one
FullMatrixLimit == 100
WindowSize == 50
\* max_iter of the pagerank call
MaxIter == 50

(***************************************************************************)
(* Bounds of the model                                                     *)
(***************************************************************************)
\* width of the modelled hash (Python's is 2^64)
HashMod == 997
\* repetitions of the filler word in the two long texts
PadRepeat == 145
\* repetitions of the filler word in the text without terminators
NoTermRepeat == 15
\* repetitions of ".," in the text of only punctuation
PunctRepeat == 51

(***************************************************************************)
(* Characters                                                              *)
(***************************************************************************)
LowerCase == <<"a", "b", "c", "d", "e", "f", "g", "h", "i", "j", "k", "l", "m", "n", "o", "p", "q", "r", "s", "t", "u", "v", "w", "x", "y", "z">>
UpperCase == <<"A", "B", "C", "D", "E", "F", "G", "H", "I", "J", "K", "L", "M", "N", "O", "P", "Q", "R", "S", "T", "U", "V", "W", "X", "Y", "Z">>
Punctuation == <<".", "!", "?", ",", " ", "\n", "\t">>
Alphabet == LowerCase \o UpperCase \o Punctuation

Range(s) == {s[i] : i \in 1..Len(s)}

\* the regular expression class \s
IsSpace(c) == c \in {" ", "\n", "\t"}
\* the regular expression class \w, on the characters of the alphabet
IsWord(c) == c \in Range(LowerCase) \cup Range(UpperCase)
\* the characters of the class [.!?]
Terminal == {".", "!", "?"}

\* str.lower() on one character
LowerChar(c) ==
    IF c \in Range(UpperCase)
    THEN LowerCase[CHOOSE i \in 1..Len(UpperCase) : UpperCase[i] = c]
    ELSE c

\* the code point of a character, as its place in the alphabet
Code(c) == CHOOSE i \in 1..Len(Alphabet) : Alphabet[i] = c

(***************************************************************************)
(* Sequences                                                               *)
(***************************************************************************)
Min(a, b) == IF a <= b THEN a ELSE b
Max(a, b) == IF a >= b THEN a ELSE b

\* w repeated k times
Rep(w, k) == [i \in 1..(k * Len(w)) |-> w[((i - 1) % Len(w)) + 1]]

RECURSIVE Cat(_)
\* the concatenation of a sequence of sequences
Cat(ss) == IF ss = <<>> THEN <<>> ELSE Head(ss) \o Cat(Tail(ss))

RECURSIVE SortedSeq(_)
\* a finite set of integers as an ascending sequence
SortedSeq(S) ==
    IF S = {} THEN <<>>
    ELSE LET m == CHOOSE x \in S : \A y \in S : x <= y
         IN  <<m>> \o SortedSeq(S \ {m})

\* Python's s[:n] for n >= 0
Prefix(s, n) == SubSeq(s, 1, Min(n, Len(s)))

RECURSIVE Join(_)
\* ' '.join(parts)
Join(parts) ==
    IF parts = <<>> THEN <<>>
    ELSE IF Len(parts) = 1 THEN parts[1]
    ELSE parts[1] \o <<" ">> \o Join(Tail(parts))

(***************************************************************************)
(* Splitting a text into sentences                                         *)
(***************************************************************************)
\* the places where the pattern (?<=[.!?])\s+ starts to match
SepStarts(t) == {p \in 2..Len(t) : IsSpace(t[p]) /\ t[p - 1] \in Terminal}

\* the last place of the whitespace run that starts at p
RunEnd(t, p) ==
    CHOOSE q \in p..Len(t) :
        /\ q = Len(t) \/ ~IsSpace(t[q + 1])
        /\ \A k \in p..q : IsSpace(t[k])

\* the pieces of t between the separators that start at the places in cuts,
\* the last piece ending at place last
Pieces(t, cuts, last) ==
    LET starts == SortedSeq(cuts)
        m == Len(starts)
    IN  [k \in 1..(m + 1) |->
            SubSeq(t,
                   IF k = 1 THEN 1 ELSE RunEnd(t, starts[k - 1]) + 1,
                   IF k = m + 1 THEN last ELSE starts[k] - 1)]

\* re.split(r'(?<=[.!?])\s+', text)
RegexSplit(t) == Pieces(t, SepStarts(t), Len(t))

\* len(text.rstrip())
RStripLen(t) ==
    IF \A p \in 1..Len(t) : IsSpace(t[p]) THEN 0
    ELSE CHOOSE p \in 1..Len(t) :
            ~IsSpace(t[p]) /\ \A k \in (p + 1)..Len(t) : IsSpace(t[k])

\* nltk's sent_tokenize on a text of ordinary words (no abbreviations, initials
\* or numbers before a period): a sentence ends at a terminator that is followed
\* by whitespace and a further token; trailing whitespace is dropped and a text
\* of whitespace alone has no sentence.
SentTokenize(t) ==
    IF RStripLen(t) = 0 THEN <<>>
    ELSE Pieces(t, {p \in SepStarts(t) : RunEnd(t, p) < Len(t)}, RStripLen(t))

(***************************************************************************)
(* The input universe: the texts the operations are called with            *)
(***************************************************************************)
s1 == <<"M", "a", "r", "k", "e", "t", "s", " ", "r", "a", "l", "l", "i", "e", "d", " ", "s", "h", "a", "r", "p", "l", "y", " ", "t", "o", "d", "a", "y", ".">>
s2 == <<"T", "r", "a", "d", "e", "r", "s", " ", "b", "o", "u", "g", "h", "t", " ", "b", "a", "n", "k", " ", "s", "h", "a", "r", "e", "s", "!">>
s3 == <<"D", "i", "d", " ", "b", "o", "n", "d", " ", "y", "i", "e", "l", "d", "s", " ", "f", "a", "l", "l", " ", "a", "g", "a", "i", "n", "?">>
s4 == <<"A", "n", "a", "l", "y", "s", "t", "s", " ", "e", "x", "p", "e", "c", "t", " ", "s", "l", "o", "w", "e", "r", " ", "g", "r", "o", "w", "t", "h", ".">>
s5 == <<"B", "a", "n", "k", " ", "s", "h", "a", "r", "e", "s", " ", "r", "a", "l", "l", "i", "e", "d", " ", "s", "h", "a", "r", "p", "l", "y", ".">>
s6 == <<"G", "r", "o", "w", "t", "h", " ", "f", "e", "a", "r", "s", " ", "h", "i", "t", " ", "b", "o", "n", "d", " ", "m", "a", "r", "k", "e", "t", "s", ".">>
s7 == <<"Y", "i", "e", "l", "d", "s", " ", "f", "e", "l", "l", ",", " ", "s", "h", "a", "r", "e", "s", " ", "r", "o", "s", "e", ".">>
s8 == <<"T", "r", "a", "d", "e", "r", "s", " ", "e", "x", "p", "e", "c", "t", " ", "s", "l", "o", "w", "e", "r", " ", "m", "a", "r", "k", "e", "t", "s", ".">>
s9 == <<"A", "n", "a", "l", "y", "s", "t", "s", " ", "e", "x", "p", "e", "c", "t", " ", "s", "l", "o", "w", "e", "r", " ", "g", "r", "o", "w", "t", "h", " ", "a", "n", "d", " ", "b", "o", "n", "d", " ", "y", "i", "e", "l", "d", "s", " ", "f", "e", "l", "l", " ", "a", "g", "a", "i", "n", ".">>
filler == <<"s", "t", "o", "c", "k", "s", " ">>
sp == <<" ">>
nl == <<"\n">>

\* ""
TextEmpty == <<>>
\* one sentence, under 100 characters
TextShort == s1
\* "Stocks rose. Bonds fell! Why now? Rates rose.": four sentences, under 100 characters
TextShortFour == <<"S", "t", "o", "c", "k", "s", " ", "r", "o", "s", "e", ".", " ", "B", "o", "n", "d", "s", " ", "f", "e", "l", "l", "!", " ", "W", "h", "y", " ", "n", "o", "w", "?", " ", "R", "a", "t", "e", "s", " ", "r", "o", "s", "e", ".">>
\* only punctuation, no whitespace, over 100 characters
TextPunct == Rep(<<".", ",">>, PunctRepeat)
\* words and spaces without any sentence terminator, over 100 characters
TextNoTerm == Rep(filler, NoTermRepeat)
\* two sentences and a trailing line break
TextTwo == Cat(<<s9, nl, s9, nl>>)
\* three sentences, separated by two spaces and by a line break
TextThree == Cat(<<s1, sp, sp, s9, nl, s6>>)
\* four sentences, separated by single spaces
TextFour == Cat(<<s1, sp, s2, sp, s3, sp, s4>>)
\* what the two long texts share: over 1000 characters, the start of a sentence
LongHead == Rep(filler, PadRepeat)
\* eight sentences, separated by a space, two spaces and a line break
TextLongA == Cat(<<LongHead, <<"f", "e", "l", "l", ".">>, sp, s1, sp, sp, s2, nl,
                   s3, sp, s4, sp, s5, sp, s6, sp, s7>>)
\* two sentences, with the first 1000 characters of TextLongA
TextLongB == Cat(<<LongHead, <<"r", "o", "s", "e", "!">>, sp, s8>>)

\* five sentences, separated by two spaces, a line break and single spaces
TextFive == Cat(<<s1, sp, sp, s2, nl, s3, sp, s4, sp, s5>>)

\* "Stocks rose. Bonds fell! Why now? Rates rose. Gold fell. Oil rose.": six
\* sentences, under 100 characters
TextShortSix == TextShortFour \o <<" ", "G", "o", "l", "d", " ", "f", "e", "l", "l", ".", " ", "O", "i", "l", " ", "r", "o", "s", "e", ".">>

Texts == <<TextEmpty, TextShort, TextShortFour, TextPunct, TextNoTerm,
           TextTwo, TextThree, TextFour, TextLongA, TextLongB, TextFive,
           TextShortSix>>
TextIds == 1..Len(Texts)
\* the texts generate_summary is called with
GenTextIds == {1, 2, 4, 5, 6, 7, 8, 9, 10}
\* the texts fast_summarize is called with
FastTextIds == {1, 3, 6, 7, 8, 9, 11, 12}

\* (ratio in tenths, min_sentences, max_sentences) of a generate_summary call:
\* the defaults, another ratio, a minimum above the sentence count of the
\* shorter texts, and a minimum above the maximum.  For these
\* ratios and every sentence count below 1200 the float product len * ratio
\* truncates to the same integer as the exact product.
ParamChoices ==
    { [ratio |-> DefaultRatioTenths, min_sentences |-> DefaultMinSentences,
       max_sentences |-> DefaultMaxSentences],
      [ratio |-> 6, min_sentences |-> DefaultMinSentences,
       max_sentences |-> DefaultMaxSentences],
      [ratio |-> 10, min_sentences |-> 5,
       max_sentences |-> DefaultMaxSentences],
      [ratio |-> DefaultRatioTenths, min_sentences |-> 5, max_sentences |-> 2] }

\* the lists of texts batch_summarize is called with, and its ratios in tenths
BatchInputs == << <<>>, <<9, 10>>, <<10, 9, 10>>, <<8, 8>>, <<2, 7, 9>>, <<1, 5, 8>> >>
BatchRatios == {DefaultRatioTenths, 6}

\* num_sentences of a fast_summarize call
FastChoices == {1, 3, 5, 9}

(***************************************************************************)
(* The environment: which library call fails                               *)
(***************************************************************************)
\* "none": every library call succeeds
\* "punkt_lookup": sent_tokenize raises LookupError (its data is missing)
\* "tokenize": sent_tokenize raises another exception
\* "matrix": building the similarity matrix raises
\* "rank": from_numpy_array or pagerank raises (PowerIterationFailedConvergence
\*         when the iteration cap is hit, ImportError without scipy)
Faults == {"none", "punkt_lookup", "tokenize", "matrix", "rank"}
\* those of them sent_tokenize meets
TokenizerFaults == {"none", "punkt_lookup", "tokenize"}
\* with or without the stopword corpus
CorpusFaults == {"none", "stopwords_lookup"}

\* the exception classes of the model; every one derives from Exception
ExceptionClasses == {"LookupError", "TypeError", "MemoryError",
                     "PowerIterationFailedConvergence"}

VARIABLES
    cache,          \* self.cache: text_hash -> summary
    fault,          \* the environment's failing library call, fixed for a run
    op,             \* the operation called last
    arg,            \* its text, as an index into Texts
    params,         \* its other arguments
    ret,            \* the string it returned
    raised,         \* whether it raised to its caller instead
    hit,            \* whether it returned from the cache
    steps,          \* the pipeline steps it ran
    num_sentences,  \* the number of sentences it asked for (-1: not computed)
    picked,         \* the positions of the sentences it joined, in output order
    again,          \* whether this generate_summary call repeats the call before it
    results,        \* the list batch_summarize returned
    stop_words,     \* self.stop_words: the words the similarity leaves out
    calls,          \* the generate_summary calls in flight, each with its place
    oracle          \* what the text of the calls in flight comes to when ranked

vars == <<cache, fault, op, arg, params, ret, raised, hit, steps, num_sentences,
          picked, again, results, stop_words, calls, oracle>>

(***************************************************************************)
(* The pure parts of SummaryGenerator                                      *)
(***************************************************************************)
RECURSIVE WeightedSum(_, _, _)
\* the sum of i * Code(s[i]) for i in lo..hi
WeightedSum(s, lo, hi) ==
    IF lo > hi THEN 0
    ELSE IF lo = hi THEN lo * Code(s[lo])
    ELSE LET mid == (lo + hi) \div 2
         IN  WeightedSum(s, lo, mid) + WeightedSum(s, mid + 1, hi)

\* hash(s): a checksum of the characters, of bounded width
Hash(s) == WeightedSum(s, 1, Len(s)) % HashMod

\* a key over the whole text
text_hash_whole(t) == Hash(t)

\* text_hash = hash(text[:1000])
text_hash(t) == Hash(Prefix(t, CacheKeyChars))

RECURSIVE Cleaned(_, _, _)
\* the characters of t[lo..hi] that [^\w\s\.] does not match, lowercased
Cleaned(t, lo, hi) ==
    IF lo > hi THEN <<>>
    ELSE IF lo = hi
    THEN IF IsWord(t[lo]) \/ IsSpace(t[lo]) \/ t[lo] = "."
         THEN <<LowerChar(t[lo])>> ELSE <<>>
    ELSE LET mid == (lo + hi) \div 2
         IN  Cleaned(t, lo, mid) \o Cleaned(t, mid + 1, hi)

\* re.sub(r'[^\w\s\.]', '', text).lower()
preprocess_text(t) == Cleaned(t, 1, Len(t))

\* <<F(1), ..., F(n)>>
Tabulate(F(_), n) ==
    LET RECURSIVE T(_)
        T(i) == IF i = 0 THEN <<>> ELSE Append(T(i - 1), F(i))
    IN  T(n)

\* The pure functions of a text, tabulated over the input universe: the
\* operations below are called with texts by their index into Texts.
TextHashOf == Tabulate(LAMBDA i : text_hash(Texts[i]), Len(Texts))
SentTokenizeOf == Tabulate(LAMBDA i : SentTokenize(Texts[i]), Len(Texts))
RegexSplitOf == Tabulate(LAMBDA i : RegexSplit(Texts[i]), Len(Texts))

\* the empty text alone
IsShortEmptyOnly(t) == Len(t) = 0

\* not text or len(text) < 100
IsShort(t) == Len(t) = 0 \/ Len(t) < MinTextLen

\* fewer than 3 sentences
IsFewStrict(sentences) == Len(sentences) < FewSentences

\* len(sentences) <= 3
IsFew(sentences) == Len(sentences) <= FewSentences

\* a value returned, or an exception raised
Returned(v) == [ok |-> TRUE, val |-> v, exc |-> "none"]
Raises(e) == [ok |-> FALSE, val |-> <<>>, exc |-> e]

\* sent_tokenize(text)
sent_tokenize(tid) ==
    CASE fault = "punkt_lookup" -> Raises("LookupError")
      [] fault = "tokenize" -> Raises("TypeError")
      [] OTHER -> Returned(SentTokenizeOf[tid])

\* a tokenizer without the handler of LookupError
tokenize_sentences_unguarded(tid) == sent_tokenize(tid)

\* _tokenize_sentences: sent_tokenize, and the regular expression on LookupError
tokenize_sentences(tid) ==
    LET r == sent_tokenize(tid)
    IN  IF ~r.ok /\ r.exc = "LookupError" THEN Returned(RegexSplitOf[tid]) ELSE r

\* a slice that drops the last sentence when the length is no multiple of k
Stride_floor(s, k) == [i \in 1..(Len(s) \div k) |-> s[(i - 1) * k + 1]]

\* sentences[::k]
Stride(s, k) == [i \in 1..((Len(s) + k - 1) \div k) |-> s[(i - 1) * k + 1]]

\* a sampling that takes every fifth sentence from 500 sentences on
Downsample_from_500(s) ==
    IF Len(s) > 200
    THEN IF Len(s) < 500 THEN Stride(s, 2) ELSE Stride(s, 5)
    ELSE s

\* the sampling of a long list of sentences
Downsample(s) ==
    IF Len(s) > 200
    THEN IF Len(s) <= 500 THEN Stride(s, 2) ELSE Stride(s, 5)
    ELSE s

\* int(x) of the quotient a / b, b > 0: truncation toward zero
IntTrunc(a, b) == IF a >= 0 THEN a \div b ELSE -((-a) \div b)

\* round(x) of the quotient a / b, a >= 0, b > 0 and even: to the nearest
\* integer, a half to the even neighbour
Round(a, b) ==
    LET q == a \div b
        r == a % b
    IN  IF 2 * r < b \/ (2 * r = b /\ q % 2 = 0) THEN q ELSE q + 1

\* the count with the product rounded
NumSentencesRounded(n, p) ==
    Min(Max(p.min_sentences, Round(n * p.ratio, 10)), p.max_sentences)

\* min(max(min_sentences, int(len(sentences) * ratio)), max_sentences)
NumSentences(n, p) ==
    Min(Max(p.min_sentences, IntTrunc(n * p.ratio, 10)), p.max_sentences)

\* Python's s[:k]
SliceTo(s, k) ==
    IF k >= 0 THEN SubSeq(s, 1, Min(k, Len(s)))
    ELSE SubSeq(s, 1, Max(0, Len(s) + k))

\* the failure of _create_similarity_matrix, or the size of the matrix it builds
create_similarity_matrix(sentences) ==
    IF fault = "matrix" THEN Raises("MemoryError") ELSE Returned(Len(sentences))

\* the shapes of the centrality scores pagerank may return for n sentences,
\* position i counted from 0; only their order and their ties are used
ScoreFamilies == {"zigzag", "flat"}
Score(fam, i, n) == IF fam = "zigzag" THEN (3 * i + 1) % 4 ELSE 1

\* nx.pagerank(nx.from_numpy_array(similarity_matrix), max_iter=50, tol=1e-4)
pagerank(fam, n) ==
    IF fault = "rank" THEN Raises("PowerIterationFailedConvergence")
    ELSE Returned([i \in 0..(n - 1) |-> Score(fam, i, n)])

RECURSIVE RankFrom(_, _)
\* the positions in S by descending (score, position)
RankFrom(scores, S) ==
    IF S = {} THEN <<>>
    ELSE LET b == CHOOSE i \in S : \A j \in S :
                      \/ scores[j] < scores[i]
                      \/ scores[j] = scores[i] /\ j <= i
         IN  <<b>> \o RankFrom(scores, S \ {b})

RECURSIVE StableFrom(_, _)
\* the positions in S by descending score, equal scores by ascending position
StableFrom(scores, S) ==
    IF S = {} THEN <<>>
    ELSE LET b == CHOOSE i \in S : \A j \in S :
                      \/ scores[j] < scores[i]
                      \/ scores[j] = scores[i] /\ i <= j
         IN  <<b>> \o StableFrom(scores, S \ {b})

\* a sort on the score alone, which leaves equal scores in document order
ranked_sentences_by_score(scores, n) == StableFrom(scores, 0..(n - 1))

\* a sort without reverse=True
ranked_sentences_ascending(scores, n) ==
    LET down == RankFrom(scores, 0..(n - 1))
    IN  [k \in 1..n |-> down[n + 1 - k]]

\* sorted(((scores[i], i, s) for i, s in enumerate(sentences)), reverse=True),
\* as the positions i
ranked_sentences(scores, n) == RankFrom(scores, 0..(n - 1))

\* the selection left in rank order
summary_sentences_unsorted(top) == top

\* sorted(ranked_sentences[:num_sentences], key=lambda x: x[1]), as positions
summary_sentences(top) == SortedSeq(Range(top))

\* a selection that takes one sentence more than num_sentences
select_sentences_one_more(scores, n, p) ==
    [num |-> NumSentences(n, p),
     picked |-> summary_sentences(SliceTo(ranked_sentences(scores, n),
                                          NumSentences(n, p) + 1))]

\* the selection of generate_summary for n scored sentences: num_sentences and
\* the positions of ranked_sentences[:num_sentences] in document order
select_sentences(scores, n, p) ==
    [num |-> NumSentences(n, p),
     picked |-> summary_sentences(SliceTo(ranked_sentences(scores, n),
                                          NumSentences(n, p)))]

\* ' '.join of the sentences at the given positions (counted from 0)
JoinAt(sentences, positions) ==
    Join([k \in 1..Len(positions) |-> sentences[positions[k] + 1]])

\* what the body of a try block comes to: a return ("few": the text itself,
\* "summary": the joined sentences) or an exception
Outcome(kind, val, exc, ran, num, pos) ==
    [kind |-> kind, val |-> val, exc |-> exc, steps |-> ran, num |-> num,
     picked |-> pos]

\* the steps run before tokenization
BeforeTokenize(t) == IF Len(t) > PreprocessLimit THEN {} ELSE {"preprocess"}

\* the try block of generate_summary
summary_body(tid, p, fam) ==
    LET t == Texts[tid]
        s0 == BeforeTokenize(t) \cup {"tokenize"}
        tok == tokenize_sentences(tid)
    IN  IF ~tok.ok THEN Outcome("exception", <<>>, tok.exc, s0, -1, <<>>)
        ELSE IF IsFew(tok.val)
        THEN Outcome("few", t, "none", s0, -1, <<>>)
        ELSE
        LET sentences == Downsample(tok.val)
            n == Len(sentences)
            mat == create_similarity_matrix(sentences)
            s1m == s0 \cup {"matrix"}
        IN  IF ~mat.ok THEN Outcome("exception", <<>>, mat.exc, s1m, -1, <<>>)
            ELSE
            LET pr == pagerank(fam, n)
                s2m == s1m \cup {"rank"}
            IN  IF ~pr.ok THEN Outcome("exception", <<>>, pr.exc, s2m, -1, <<>>)
                ELSE
                LET sel == select_sentences(pr.val, n, p)
                IN  Outcome("summary", JoinAt(sentences, sel.picked), "none",
                            s2m, sel.num, sel.picked)

\* a handler that catches LookupError alone
except_LookupError(e) == e = "LookupError"

\* except Exception: every exception class of the model derives from Exception
except_Exception(e) == e \in ExceptionClasses

\* every piece of the simple split, joined
simple_fallback_all(tid) == Join(RegexSplitOf[tid])

\* the fallback of generate_summary: the first three pieces of the simple split
simple_fallback(tid) ==
    LET simple_sentences == RegexSplitOf[tid]
    IN  Join(SliceTo(simple_sentences,
                     Min(FallbackSentences, Len(simple_sentences))))

\* a cache of one entry: the new summary evicts the others
cache_put_evicting(c, key, summary) == [k \in {key} |-> summary]

\* a cache that is never written
cache_put_dropped(c, key, summary) == c

\* self.cache[text_hash] = summary
cache_put(c, key, summary) ==
    [k \in DOMAIN c \cup {key} |-> IF k = key THEN summary ELSE c[k]]

(***************************************************************************)
(* The stopwords and the similarity of two sentences                       *)
(***************************************************************************)
\* the list of __init__'s except branch
HardcodedStopwords ==
    {
     <<"t", "h", "e">>, <<"a", "n", "d">>, <<"a">>, <<"t", "o">>, <<"o", "f">>, <<"i", "n">>,
     <<"i", "s">>, <<"i", "t">>, <<"t", "h", "a", "t">>
    }

\* stopwords.words('english'), as far as the words of the sentences below go
EnglishStopwords ==
    {
     <<"t", "h", "e">>, <<"a", "n", "d">>, <<"a">>, <<"t", "o">>, <<"o", "f">>, <<"i", "n">>,
     <<"i", "s">>, <<"i", "t">>, <<"t", "h", "a", "t">>, <<"i">>, <<"a", "n">>, <<"a", "s">>,
     <<"a", "t">>, <<"b", "y">>, <<"f", "o", "r">>, <<"o", "n">>, <<"w", "i", "t", "h">>,
     <<"w", "a", "s">>, <<"a", "r", "e">>, <<"d", "i", "d">>, <<"a", "g", "a", "i", "n">>,
     <<"n", "o", "w">>, <<"w", "h", "y">>, <<"u", "p">>, <<"d", "o", "w", "n">>, <<"o", "r">>,
     <<"b", "u", "t">>, <<"n", "o", "t">>, <<"t", "h", "i", "s">>, <<"s">>, <<"t">>
    }

\* no stopwords at all
load_stop_words_empty(f) ==
    IF f = "stopwords_lookup" THEN {} ELSE EnglishStopwords

\* set(stopwords.words('english')), or the hardcoded list on LookupError
load_stop_words(f) ==
    IF f = "stopwords_lookup" THEN HardcodedStopwords ELSE EnglishStopwords

\* word.lower()
Lower(w) == [i \in 1..Len(w) |-> LowerChar(w[i])]

\* the end of the run of word characters that starts at position i
WordEnd(s, i) ==
    CHOOSE e \in i..Len(s) :
        /\ \A k \in i..e : IsWord(s[k])
        /\ e = Len(s) \/ ~IsWord(s[e + 1])

RECURSIVE FindAllFrom(_, _)
\* re.findall(r'\w+', s), from position i on
FindAllFrom(s, i) ==
    IF i > Len(s) THEN <<>>
    ELSE IF ~IsWord(s[i]) THEN FindAllFrom(s, i + 1)
    ELSE <<SubSeq(s, i, WordEnd(s, i))>> \o FindAllFrom(s, WordEnd(s, i) + 1)

\* re.findall(r'\w+', s)
re_findall_words(s) == FindAllFrom(s, 1)

\* the sentences _sentence_similarity is called with
PoolTheAOfIt == <<"T", "h", "e", " ", "A", " ", "o", "f", " ", "i", "t", ".">>
PoolMarkets == <<"M", "A", "R", "K", "E", "T", "S", " ", "m", "a", "r", "k", "e", "t", "s", " ", "R", "a", "l", "l", "i", "e", "d", ".">>
Pool == <<s1, s5, s3, s9, PoolTheAOfIt, <<>>, PoolMarkets, s6>>
PoolIds == 1..Len(Pool)
FindAllOf == Tabulate(LAMBDA i : re_findall_words(Pool[i]), Len(Pool))

\* the words as they are written, upper case kept
sentence_words_cased(a) ==
    {word \in Range(FindAllOf[a]) : Lower(word) \notin stop_words /\ Len(word) > 1}

\* set(word.lower() for word in re.findall(r'\w+', sent)
\*     if word.lower() not in self.stop_words and len(word) > 1)
sentence_words(a) ==
    {Lower(word) : word \in {w \in Range(FindAllOf[a]) :
                                Lower(w) \notin stop_words /\ Len(w) > 1}}

\* a quotient num / den of two integers, den > 0; 0 is <<0, 1>>
Quotient(num, den) == <<num, den>>

\* the shared words over the words of the first sentence
sentence_similarity_by_first(a, b) ==
    LET words1 == sentence_words(a)
        words2 == sentence_words(b)
    IN  IF words1 = {} \/ words2 = {} THEN Quotient(0, 1)
        ELSE Quotient(Cardinality(words1 \cap words2), Cardinality(words1))

\* _sentence_similarity(Pool[a], Pool[b])
sentence_similarity(a, b) ==
    LET words1 == sentence_words(a)
        words2 == sentence_words(b)
    IN  IF words1 = {} \/ words2 = {} THEN Quotient(0, 1)
        ELSE LET intersection == words1 \cap words2
                 union == words1 \cup words2
             IN  IF union = {} THEN Quotient(0, 1)
                 ELSE Quotient(Cardinality(intersection), Cardinality(union))

(***************************************************************************)
(* The similarity matrix                                                   *)
(***************************************************************************)
\* the lists of sentences _create_similarity_matrix is called with: n
\* sentences taken in turn from the pool, starting after the off-th
MatrixSizes == {0, 1, 2, 4, FullMatrixLimit, FullMatrixLimit + 1,
                FullMatrixLimit + WindowSize + 2}
MatrixOffsets == {0, 3}
SentenceList(n, off) == [i \in 1..n |-> ((off + i - 1) % Len(Pool)) + 1]

\* the similarities of the sentences of the pool, computed when called for
SimilarityOf == [a \in PoolIds |-> [b \in PoolIds |-> sentence_similarity(a, b)]]

\* a window that leaves out the sentence window_size places after
in_window_lopsided(i, j, n) ==
    /\ Max(0, i - WindowSize) <= j
    /\ j < Min(n, i + WindowSize)

\* a window one place narrower on both sides
in_window_narrow(i, j, n) ==
    /\ Max(0, i - (WindowSize - 1)) <= j
    /\ j < Min(n, i + WindowSize)
    /\ j - i < WindowSize

\* j in range(max(0, i - window_size), min(len(sentences), i + window_size + 1))
in_window(i, j, n) ==
    /\ Max(0, i - WindowSize) <= j
    /\ j < Min(n, i + WindowSize + 1)

\* the branch of _create_similarity_matrix taken for n sentences
matrix_path(n) == IF n <= FullMatrixLimit THEN "full" ELSE "banded"

\* _create_similarity_matrix(sentences), sentences being pool indices: the
\* matrix, rows and columns counted from 0, and the number of calls of
\* _sentence_similarity
similarity_matrix(sentences) ==
    LET n == Len(sentences)
        sim == SimilarityOf
        zero == Quotient(0, 1)
    IN  IF matrix_path(n) = "full"
        THEN [matrix |->
                [i \in 0..(n - 1) |-> [j \in 0..(n - 1) |->
                    IF i < j THEN sim[sentences[i + 1]][sentences[j + 1]]
                    ELSE IF j < i THEN sim[sentences[j + 1]][sentences[i + 1]]
                    ELSE zero]],
              calls |-> Cardinality({q \in (0..(n - 1)) \X (0..(n - 1)) : q[1] < q[2]})]
        ELSE [matrix |->
                [i \in 0..(n - 1) |-> [j \in 0..(n - 1) |->
                    IF in_window(i, j, n) /\ i # j
                    THEN sim[sentences[i + 1]][sentences[j + 1]]
                    ELSE zero]],
              calls |-> Cardinality({q \in (0..(n - 1)) \X (0..(n - 1)) :
                                        in_window(q[1], q[2], n) /\ q[1] # q[2]})]

(***************************************************************************)
(* The operations                                                          *)
(***************************************************************************)
\* the instance __init__ leaves
Constructed ==
    /\ cache = [k \in {} |-> <<>>]
    /\ stop_words = load_stop_words(fault)
    /\ op = "init"
    /\ params = [none |-> 0]
    /\ ret = <<>>
    /\ raised = FALSE
    /\ hit = FALSE
    /\ steps = {}
    /\ num_sentences = -1
    /\ picked = <<>>
    /\ again = FALSE
    /\ results = <<>>
    /\ calls = <<>>
    /\ oracle = [family |-> "flat", converges |-> 1, out |-> <<>>]

Init ==
    /\ fault \in Faults
    /\ arg = 0
    /\ Constructed

\* the part of a call's record that every path sets the same way
Called(name, tid, p) ==
    /\ op' = name
    /\ arg' = tid
    /\ params' = p
    /\ again' = (name = "generate_summary" /\ op = name /\ arg = tid /\ params = p)
    /\ UNCHANGED <<fault, stop_words, calls, oracle>>

\* a return of string r that leaves the cache alone
Return(r, isHit, ran, num, pos) ==
    /\ ret' = r
    /\ raised' = FALSE
    /\ hit' = isHit
    /\ steps' = ran
    /\ num_sentences' = num
    /\ picked' = pos

\* what a call comes to: the string returned or the exception raised, the
\* cache after it, and the record of what it ran
Result(r, c, isRaised, isHit, ran, num, pos) ==
    [ret |-> r, cache |-> c, raised |-> isRaised, hit |-> isHit, steps |-> ran,
     num |-> num, picked |-> pos]

\* a generate_summary that stores whatever it returns from its try block
after_body_storing_text(c, tid, key, out) ==
    CASE out.kind \in {"summary", "few"} ->
            Result(out.val, cache_put(c, key, out.val), FALSE, FALSE,
                   out.steps, out.num, out.picked)
      [] OTHER ->
            IF except_Exception(out.exc)
            THEN Result(simple_fallback(tid), c, FALSE, FALSE, out.steps, -1, <<>>)
            ELSE Result(<<>>, c, TRUE, FALSE, out.steps, -1, <<>>)

\* what generate_summary does with the outcome of its try block: store and
\* return the summary, return the text of few sentences, or handle the exception
after_body(c, tid, key, out) ==
    CASE out.kind = "summary" ->
            Result(out.val, cache_put(c, key, out.val), FALSE, FALSE,
                   out.steps, out.num, out.picked)
      [] out.kind = "few" ->
            Result(out.val, c, FALSE, FALSE, out.steps, -1, <<>>)
      [] OTHER ->
            IF except_Exception(out.exc)
            THEN Result(simple_fallback(tid), c, FALSE, FALSE, out.steps, -1, <<>>)
            ELSE Result(<<>>, c, TRUE, FALSE, out.steps, -1, <<>>)

\* generate_summary(Texts[tid], p.ratio / 10, p.min_sentences, p.max_sentences)
\* on an instance whose cache is c, fam being the scores pagerank returns
generate_summary(c, tid, p, fam) ==
    LET text == Texts[tid]
        key == TextHashOf[tid]
    IN  IF key \in DOMAIN c
        THEN Result(c[key], c, FALSE, TRUE, {}, -1, <<>>)
        ELSE IF IsShort(text)
        THEN Result(text, c, FALSE, FALSE, {}, -1, <<>>)
        ELSE after_body(c, tid, key, summary_body(tid, p, fam))

\* the record of a call that came to r
Finish(r) ==
    /\ cache' = r.cache
    /\ ret' = r.ret
    /\ raised' = r.raised
    /\ hit' = r.hit
    /\ steps' = r.steps
    /\ num_sentences' = r.num
    /\ picked' = r.picked

\* a call of generate_summary
GenerateSummary(tid, p) ==
    /\ Called("generate_summary", tid, p)
    /\ results' = <<>>
    /\ \E fam \in ScoreFamilies :
          \E r \in {generate_summary(cache, tid, p, fam)} : Finish(r)

\* the default arguments, whatever the ratio
batch_params_default(ratio) ==
    [ratio |-> DefaultRatioTenths, min_sentences |-> DefaultMinSentences,
     max_sentences |-> DefaultMaxSentences]

\* the arguments batch_summarize passes to generate_summary
batch_params(ratio) ==
    [ratio |-> ratio, min_sentences |-> DefaultMinSentences,
     max_sentences |-> DefaultMaxSentences]

\* results.append(r), r being what a generate_summary call came to
batch_append(acc, r) ==
    [results |-> IF r.raised THEN acc.results ELSE Append(acc.results, r.ret),
     cache |-> r.cache,
     raised |-> r.raised,
     steps |-> acc.steps \cup r.steps]

RECURSIVE batch_loop(_, _, _, _, _)
\* for text in texts: results.append(self.generate_summary(text, ratio)),
\* from the i-th text on, with the results so far and the cache in acc
batch_loop(acc, tids, ratio, fams, i) ==
    IF i > Len(tids) \/ acc.raised THEN acc
    ELSE batch_loop(batch_append(acc, generate_summary(acc.cache, tids[i],
                                                       batch_params(ratio), fams[i])),
                    tids, ratio, fams, i + 1)

\* a text the ranking can be reached with: at least 100 characters and more
\* than 3 sentences by one of the tokenizers
CanRank(tid) ==
    /\ ~IsShort(Texts[tid])
    /\ ~IsFew(SentTokenizeOf[tid]) \/ ~IsFew(RegexSplitOf[tid])

\* the scores pagerank may return in the calls of a batch, one family for
\* each text; where the ranking cannot be reached the family is of no account
BatchScores(tids) ==
    {fams \in [1..Len(tids) -> ScoreFamilies] :
        \A i \in 1..Len(tids) : ~CanRank(tids[i]) => fams[i] = "flat"}

\* a call of batch_summarize(texts, ratio), texts being BatchInputs[b]
BatchSummarize(b, ratio) ==
    LET tids == BatchInputs[b]
    IN  /\ Called("batch_summarize", b, [ratio |-> ratio])
        /\ \E fams \in BatchScores(tids) :
              \E out \in {batch_loop([results |-> <<>>, cache |-> cache,
                                     raised |-> FALSE, steps |-> {}],
                                    tids, ratio, fams, 1)} :
                  /\ cache' = out.cache
                  /\ results' = out.results
                  /\ raised' = out.raised
                  /\ steps' = out.steps
                  /\ ret' = <<>>
                  /\ hit' = FALSE
                  /\ num_sentences' = -1
                  /\ picked' = <<>>

\* text.replace('\n', ' ')
ReplaceNewlines(t) == [i \in 1..Len(t) |-> IF t[i] = "\n" THEN " " ELSE t[i]]

\* the whole text with its line breaks replaced, and the marker
fast_fallback_untruncated(t) == ReplaceNewlines(t) \o <<".", ".", ".">>

\* the fallback of fast_summarize: text.replace('\n', ' ')[:500] + "..."
fast_fallback(t) == SliceTo(ReplaceNewlines(t), 500) \o <<".", ".", ".">>
FastFallbackOf == Tabulate(LAMBDA i : fast_fallback(Texts[i]), Len(Texts))

\* the first, the middle and the last sentence
fast_positions_last(n) == <<0, n \div 2, n - 1>>

\* the positions fast_summarize takes from more than five sentences
fast_positions(n) == <<0, n \div 2, Min(n - 2, (n * 3) \div 4)>>

\* every sentence, joined
first_sentences_all(sentences, k) == Join(sentences)

\* ' '.join(sentences[:num_sentences])
first_sentences(sentences, k) == Join(SliceTo(sentences, k))

\* the try block of fast_summarize
fast_body(tid, k) ==
    LET t == Texts[tid]
        tok == tokenize_sentences(tid)
    IN  IF ~tok.ok THEN Outcome("exception", <<>>, tok.exc, {"tokenize"}, -1, <<>>)
        ELSE
        LET sentences == tok.val
            n == Len(sentences)
        IN  IF n <= k THEN Outcome("few", t, "none", {"tokenize"}, -1, <<>>)
            ELSE IF n <= FastFewSentences
            THEN Outcome("summary", first_sentences(sentences, k), "none",
                         {"tokenize"}, -1, [i \in 1..Len(SliceTo(sentences, k)) |-> i - 1])
            ELSE Outcome("summary", JoinAt(sentences, fast_positions(n)), "none",
                         {"tokenize"}, -1, fast_positions(n))

\* a bare except: catches every exception
except_bare(e) == TRUE

\* fast_summarize(Texts[tid], k)
FastSummarize(tid, k) ==
    LET text == Texts[tid]
    IN  /\ Called("fast_summarize", tid, [num_sentences |-> k])
        /\ UNCHANGED cache
        /\ results' = <<>>
        /\ IF IsShort(text)
           THEN Return(text, FALSE, {}, -1, <<>>)
           ELSE LET out == fast_body(tid, k)
                IN  IF out.kind = "exception"
                    THEN IF except_bare(out.exc)
                         THEN Return(FastFallbackOf[tid], FALSE, out.steps, -1, <<>>)
                         ELSE /\ ret' = <<>>
                              /\ raised' = TRUE
                              /\ hit' = FALSE
                              /\ steps' = out.steps
                              /\ num_sentences' = -1
                              /\ picked' = <<>>
                    ELSE Return(out.val, FALSE, out.steps, -1, out.picked)

Next ==
    \/ \E tid \in GenTextIds, p \in ParamChoices : GenerateSummary(tid, p)
    \/ \E tid \in FastTextIds, k \in FastChoices : FastSummarize(tid, k)
    \/ \E b \in DOMAIN BatchInputs, ratio \in BatchRatios : BatchSummarize(b, ratio)

Spec == Init /\ [][Next]_vars

(***************************************************************************)
(* The pure functions, applied once to an input drawn at the start         *)
(***************************************************************************)
\* the pairs of sentences _sentence_similarity is applied to
SimInputs == {[kind |-> "pair", a |-> a, b |-> b] : a \in PoolIds, b \in PoolIds}

\* the lists of sentences _create_similarity_matrix is applied to
MatrixInputs == {[kind |-> "list", n |-> n, off |-> off] :
                    n \in MatrixSizes, off \in MatrixOffsets}

\* the tokenizations the sampling is applied to: n sentences, each written as
\* its position in the tokenization, counted from 0
TokenCounts == {0, 3, 4, 5, 100, 101, 200, 201, 202, 300, 499, 500, 501, 502, 505,
                506}
TokenInputs == {[kind |-> "tokens", n |-> n] : n \in TokenCounts}
Tokenization(n) == [i \in 1..n |-> i - 1]

\* the scored lists the selection is applied to: 4 or 5 sentences, each with
\* one of three scores, and 10, 24 or 30 sentences with the scores of a family,
\* and the parameters of the call
SelectCounts == {4, 5}
LongSelectCounts == {10, 24, 30}
ScoreValues == 0..2
SelectParams ==
    ParamChoices \cup
    {[ratio |-> DefaultRatioTenths, min_sentences |-> 9, max_sentences |-> 6],
     [ratio |-> 0, min_sentences |-> 0, max_sentences |-> DefaultMaxSentences]}
SelectInputs ==
    UNION ({{[kind |-> "scores", n |-> n, scores |-> sc, p |-> q] :
                sc \in [0..(n - 1) -> ScoreValues], q \in SelectParams} :
            n \in SelectCounts}
           \cup
           {{[kind |-> "scores", n |-> n,
              scores |-> [i \in 0..(n - 1) |-> Score(fam, i, n)], p |-> q] :
                fam \in ScoreFamilies, q \in SelectParams} :
            n \in LongSelectCounts})

\* the texts _tokenize_sentences is applied to
TextInputs == {[kind |-> "text", tid |-> tid] : tid \in TextIds}

\* the similarity is applied with and without the stopword corpus, the
\* tokenizer with and without its resources
SimInit ==
    /\ \/ fault \in CorpusFaults /\ arg \in SimInputs \cup MatrixInputs
       \/ fault = "none" /\ arg \in TokenInputs \cup SelectInputs
       \/ fault \in TokenizerFaults /\ arg \in TextInputs
    /\ Constructed

\* the record of a pure function applied to arg and returning r
Applied(name, r) ==
    /\ op = "init"
    /\ op' = name
    /\ ret' = r
    /\ UNCHANGED <<cache, fault, arg, params, raised, hit, steps, num_sentences,
                   picked, again, results, stop_words, calls, oracle>>

\* a call of _sentence_similarity
SentenceSimilarity ==
    /\ arg.kind = "pair"
    /\ Applied("_sentence_similarity", sentence_similarity(arg.a, arg.b))

\* a call of _create_similarity_matrix
CreateSimilarityMatrix ==
    /\ arg.kind = "list"
    /\ Applied("_create_similarity_matrix",
               similarity_matrix(SentenceList(arg.n, arg.off)))

\* generate_summary from the tokenization to the call of
\* _create_similarity_matrix: the return for few sentences, or the sampled
\* list and the branch _create_similarity_matrix takes for it
sample_sentences(tokens) ==
    IF IsFew(tokens) THEN [kind |-> "few", sentences |-> <<>>, path |-> "none"]
    ELSE LET sentences == Downsample(tokens)
         IN  [kind |-> "sampled", sentences |-> sentences,
              path |-> matrix_path(Len(sentences))]

SampleSentences ==
    /\ arg.kind = "tokens"
    /\ Applied("sample", sample_sentences(Tokenization(arg.n)))

\* generate_summary from the scores to the selection in document order
SelectSentences ==
    /\ arg.kind = "scores"
    /\ Applied("select", select_sentences(arg.scores, arg.n, arg.p))

\* a call of _tokenize_sentences
TokenizeSentences ==
    /\ arg.kind = "text"
    /\ Applied("_tokenize_sentences", tokenize_sentences(arg.tid))

SimNext ==
    \/ TokenizeSentences
    \/ SentenceSimilarity
    \/ CreateSimilarityMatrix
    \/ SampleSentences
    \/ SelectSentences

SimSpec == SimInit /\ [][SimNext]_vars

(***************************************************************************)
(* generate_summary step by step: calls in flight on one instance, all     *)
(* with the same text and parameters.  A step is a read or a write of       *)
(* self.cache, an iteration of pagerank, or the code of one call between    *)
(* two of these, which touches nothing the calls share.  What the try      *)
(* block comes to depends on the text, the parameters and the environment   *)
(* alone, the same for every call: it is worked out when the calls are      *)
(* entered (oracle.out) and read at the step that reaches it.               *)
(***************************************************************************)
\* the number of calls in flight together
NumCalls == 2

\* the text and the parameters of the calls
CallTextIds == {2, 7, 8}
CallParams ==
    {[ratio |-> DefaultRatioTenths, min_sentences |-> DefaultMinSentences,
      max_sentences |-> DefaultMaxSentences],
     [ratio |-> 10, min_sentences |-> 5, max_sentences |-> DefaultMaxSentences]}

\* the iteration after which the scores of the text are within tol, when the
\* ranking does not fail
ConvergeChoices == {1, MaxIter - 1, MaxIter}

\* a call that has just been entered
NewCall == [pc |-> "lookup", iter |-> 0, summary |-> <<>>, ret |-> <<>>]

\* n calls of generate_summary(Texts[arg], params) entered on a new instance
CallsEntered(n, faults, converges) ==
    /\ fault \in faults
    /\ arg \in CallTextIds
    /\ params \in CallParams
    /\ oracle \in {[family |-> fam, converges |-> k,
                    out |-> summary_body(arg, params, fam)] :
                       fam \in ScoreFamilies, k \in converges}
    /\ calls = [c \in 1..n |-> NewCall]
    /\ cache = [k \in {} |-> <<>>]
    /\ stop_words = load_stop_words(fault)
    /\ op = "generate_summary"
    /\ ret = <<>>
    /\ raised = FALSE
    /\ hit = FALSE
    /\ steps = {}
    /\ num_sentences = -1
    /\ picked = <<>>
    /\ again = FALSE
    /\ results = <<>>

\* call c moves to place pc with its locals changed
Moves(c, pc, iter, summary, r) ==
    calls' = [calls EXCEPT ![c] = [pc |-> pc, iter |-> iter,
                                   summary |-> summary, ret |-> r]]

\* what no step of a call in flight changes
CallFrame ==
    UNCHANGED <<fault, op, arg, params, ret, raised, hit, steps, num_sentences,
                picked, again, results, stop_words, oracle>>

\* if text_hash in self.cache
Contains(c) ==
    /\ calls[c].pc = "lookup"
    /\ Moves(c, IF TextHashOf[arg] \in DOMAIN cache THEN "hit" ELSE "miss",
             0, <<>>, <<>>)
    /\ UNCHANGED cache
    /\ CallFrame

\* return self.cache[text_hash]
Get(c) ==
    /\ calls[c].pc = "hit"
    /\ Moves(c, "done", 0, <<>>, cache[TextHashOf[arg]])
    /\ UNCHANGED cache
    /\ CallFrame

\* where the call stands after the code before pagerank, out being what its
\* try block comes to: at the ranking, or returned
prepared(c, out) ==
    IF "rank" \in out.steps THEN Moves(c, "rank", 0, <<>>, <<>>)
    ELSE Moves(c, "done", 0, <<>>,
               after_body(cache, arg, TextHashOf[arg], out).ret)

\* from the miss to the call of pagerank: the return of a short text, the
\* tokenization, the return for few sentences, the matrix
Prepare(c) ==
    /\ calls[c].pc = "miss"
    /\ IF IsShort(Texts[arg]) THEN Moves(c, "done", 0, <<>>, Texts[arg])
       ELSE prepared(c, oracle.out)
    /\ UNCHANGED cache
    /\ CallFrame

\* the scores are within tol after i iterations
Converged(i) == fault # "rank" /\ i >= oracle.converges

\* an iteration count that starts over before it reaches the limit
next_iter_restarting(i) == (i + 1) % MaxIter

\* the count of iterations after one more
next_iter(i) == i + 1

\* one iteration of pagerank: for _ in range(max_iter)
Iterate(c) ==
    /\ calls[c].pc = "rank"
    /\ calls[c].iter < MaxIter
    /\ ~Converged(calls[c].iter)
    /\ Moves(c, "rank", next_iter(calls[c].iter), <<>>, <<>>)
    /\ UNCHANGED cache
    /\ CallFrame

\* pagerank returns the scores; the selection and the join follow
Select(c) ==
    /\ calls[c].pc = "rank"
    /\ Converged(calls[c].iter)
    /\ Moves(c, "store", calls[c].iter, oracle.out.val, <<>>)
    /\ UNCHANGED cache
    /\ CallFrame

\* pagerank raises PowerIterationFailedConvergence after max_iter iterations;
\* the handler returns the fallback
GiveUp(c) ==
    /\ calls[c].pc = "rank"
    /\ calls[c].iter >= MaxIter
    /\ ~Converged(calls[c].iter)
    /\ except_Exception("PowerIterationFailedConvergence")
    /\ Moves(c, "done", calls[c].iter, <<>>, simple_fallback(arg))
    /\ UNCHANGED cache
    /\ CallFrame

\* self.cache[text_hash] = summary; return summary
Store(c) ==
    /\ calls[c].pc = "store"
    /\ cache' = cache_put(cache, TextHashOf[arg], calls[c].summary)
    /\ Moves(c, "done", calls[c].iter, calls[c].summary, calls[c].summary)
    /\ CallFrame

CallStep(c) ==
    \/ Contains(c)
    \/ Get(c)
    \/ Prepare(c)
    \/ Iterate(c)
    \/ Select(c)
    \/ GiveUp(c)
    \/ Store(c)

CallNext == \E c \in DOMAIN calls : CallStep(c)

\* one call, alone on the instance: a call that can take a step takes one
TermInit == CallsEntered(1, Faults, ConvergeChoices)
TermSpec == TermInit /\ [][CallNext]_vars /\ WF_vars(CallNext)

\* NumCalls calls, their steps interleaved in every order; the iterations,
\* which touch nothing shared, are kept to one for each call where the
\* ranking does not fail
ConcInit == CallsEntered(NumCalls, Faults, {1})
ConcSpec == ConcInit /\ [][CallNext]_vars

(***************************************************************************)
(* Properties                                                              *)
(***************************************************************************)
Chars == Range(Alphabet)
IsString(s) == \A i \in 1..Len(s) : s[i] \in Chars

\* the sentences the environment's tokenizer gives for a text
TokenizedOf(tid) ==
    IF fault = "punkt_lookup" THEN RegexSplitOf[tid] ELSE SentTokenizeOf[tid]

\* the last call was a generate_summary that missed the cache
Missed == op = "generate_summary" /\ ~hit

\* the last call was a generate_summary that ranked its sentences and returned
\* the summary it built
Ranked == Missed /\ ~raised /\ "rank" \in steps /\ fault # "rank"

\* C1: generate_summary never raises to its caller: for every text of the
\* universe (the empty one, the one of only punctuation, the one without
\* terminators among them) and whichever library call fails, the call returns
\* a string.
C1_NeverRaises == op = "generate_summary" => (~raised /\ IsString(ret))

\* a call in which a library call raised inside the try block, and a string
\* came back
C1_Witness ==
    /\ op = "generate_summary"
    /\ fault \in {"tokenize", "matrix", "rank"}
    /\ "tokenize" \in steps
    /\ ~raised
    /\ ret # <<>>

\* C2: the sentences of a summary built from more than 3 sentences stand in
\* strictly ascending original position, whatever their scores: the returned
\* string is the sentences at the picked positions joined by single spaces,
\* and each picked position is greater than the one before it.
C2_DocumentOrder ==
    Ranked =>
        /\ \A k \in 1..(Len(picked) - 1) : picked[k] < picked[k + 1]
        /\ ret = JoinAt(Downsample(TokenizedOf(arg)), picked)

\* the four-sentence text ranked with scores whose descending order is
\* positions 2, 3, 0: the summary has them as 0, 2, 3
C2_Witness == Ranked /\ arg = 8 /\ picked = <<0, 2, 3>>

\* this step is a generate_summary call with the operation and arguments of
\* the call before it
Repeats ==
    /\ op = "generate_summary" /\ op' = "generate_summary"
    /\ arg' = arg /\ params' = params

\* the last call left its result in the cache: it returned from the cache or
\* stored the summary it built
Settled == op = "generate_summary" /\ (hit \/ Ranked)

SamePrefix ==
    {pair \in TextIds \X TextIds :
        Prefix(Texts[pair[1]], CacheKeyChars) = Prefix(Texts[pair[2]], CacheKeyChars)}

\* texts with the same first 1000 characters have the same key
KeyByPrefix == \A pair \in SamePrefix : TextHashOf[pair[1]] = TextHashOf[pair[2]]

\* C4: the key depends only on the first 1000 characters, and a call whose
\* text shares them with a text whose key is in the cache returns the stored
\* summary, whatever the rest of its text and its other arguments; it runs no
\* pipeline step and leaves the cache as it was.
C4_CacheHit ==
    [][op' = "generate_summary" =>
          /\ KeyByPrefix
          /\ \A u \in TextIds :
                (<<u, arg'>> \in SamePrefix /\ TextHashOf[u] \in DOMAIN cache) =>
                    /\ ret' = cache[TextHashOf[u]]
                    /\ hit' /\ ~raised'
                    /\ steps' = {}
                    /\ cache' = cache]_vars

\* the two-sentence long text, called with max_sentences = 2, is answered with
\* the seven-sentence summary stored for the other long text
C4_Witness ==
    /\ op = "generate_summary" /\ arg = 10 /\ hit
    /\ params.max_sentences = 2
    /\ Texts[10] # Texts[9]
    /\ ret = JoinAt(SentTokenizeOf[9], <<1, 2, 3, 4, 5, 6, 7>>)
    /\ steps = {}

RankedSentences == Downsample(TokenizedOf(arg))

\* C6 as stated: the number of sentences selected is the rounded product of
\* the sentence count and the ratio, brought up to min_sentences and then
\* down to max_sentences.
C6_RoundedCount ==
    Ranked =>
        num_sentences =
            Min(Max(params.min_sentences,
                    Round(Len(RankedSentences) * params.ratio, 10)),
                params.max_sentences)

\* C6, amended: the number of sentences selected is the product of the
\* sentence count (after any downsampling) and the ratio with its fraction
\* dropped, not rounded, brought up to min_sentences and then down to
\* max_sentences; that many sentences are picked when the list has them.
C6_TruncatedCount ==
    Ranked =>
        LET x == Len(RankedSentences) * params.ratio
        IN  /\ \E t \in 0..x :
                /\ 10 * t <= x /\ x < 10 * (t + 1)
                /\ LET raisedTo == IF t < params.min_sentences
                                   THEN params.min_sentences ELSE t
                   IN  num_sentences = IF raisedTo > params.max_sentences
                                       THEN params.max_sentences ELSE raisedTo
            /\ num_sentences <= Len(RankedSentences) => Len(picked) = num_sentences

\* eight sentences at ratio 0.6: the product 4.8 gives 4 sentences, not 5
C6_Witness ==
    /\ Ranked /\ arg = 9
    /\ Len(RankedSentences) = 8 /\ params.ratio = 6
    /\ num_sentences = 4 /\ Len(picked) = 4

\* C7: a generate_summary call on a text that is empty or shorter than 100
\* characters, and not answered from the cache, returns the text unchanged
\* and runs no step of the pipeline.
C7_ShortInput ==
    (Missed /\ Len(Texts[arg]) < MinTextLen) =>
        /\ ret = Texts[arg]
        /\ ~raised
        /\ steps = {}
        /\ TextHashOf[arg] \notin DOMAIN cache

\* the 30-character text returned as it is, with a tokenizer that would have
\* failed had it been called
C7_Witness ==
    /\ Missed /\ arg = 2 /\ fault = "tokenize"
    /\ Len(Texts[2]) = 30
    /\ ret = Texts[2] /\ steps = {}

\* the last generate_summary call tokenized a text of at least 100 characters
\* into 3 or fewer sentences
FewTokenized ==
    /\ Missed
    /\ Len(Texts[arg]) >= MinTextLen
    /\ fault # "tokenize"
    /\ Len(TokenizedOf(arg)) <= FewSentences

\* C8: when the tokenization of a text of at least 100 characters gives 3 or
\* fewer sentences, generate_summary returns the text itself, character for
\* character, after the tokenization and without building a matrix or ranking.
C8_FewSentences ==
    FewTokenized =>
        /\ ret = Texts[arg]
        /\ ~raised
        /\ "tokenize" \in steps
        /\ steps \cap {"matrix", "rank"} = {}

\* the three-sentence text, whose sentences joined by single spaces differ
\* from it, returned as it is
C8_Witness ==
    /\ FewTokenized /\ arg = 7 /\ fault = "none"
    /\ Len(TokenizedOf(7)) = 3
    /\ ret = Texts[7]
    /\ ret # Join(TokenizedOf(7))

\* the last generate_summary call met an exception in its pipeline: the
\* tokenizer failed, or the matrix build or the ranking failed on a text of
\* more than 3 sentences
PipelineFailed ==
    /\ Missed
    /\ Len(Texts[arg]) >= MinTextLen
    /\ \/ fault = "tokenize"
       \/ fault \in {"matrix", "rank"} /\ Len(TokenizedOf(arg)) > FewSentences

\* C9: when the tokenization, the matrix build or the ranking raises,
\* generate_summary returns the first min(3, k) of the k pieces the text
\* splits into at whitespace following '.', '!' or '?', joined by single
\* spaces, and raises nothing.
C9_ExceptionFallback ==
    PipelineFailed =>
        LET pieces == RegexSplitOf[arg]
            m == IF Len(pieces) < 3 THEN Len(pieces) ELSE 3
        IN  /\ ret = Join(SubSeq(pieces, 1, m))
            /\ ~raised

\* the ranking of the eight-sentence text failed and the first three of its
\* eight pieces came back
C9_Witness ==
    /\ PipelineFailed /\ fault = "rank" /\ arg = 9
    /\ "rank" \in steps
    /\ Len(RegexSplitOf[9]) = 8
    /\ ret = Join(SubSeq(RegexSplitOf[9], 1, 3))
    /\ ret # Texts[9]

\* the last call was a fast_summarize whose tokenizer, had it run, gave
\* sentences
FastTokenized == op = "fast_summarize" /\ fault # "tokenize"

\* C10 as stated: fast_summarize returns the text unchanged when it has at
\* most num_sentences sentences, and otherwise, when it has at most 5, the
\* first num_sentences sentences joined by single spaces.
C10_FastShortStructures ==
    FastTokenized =>
        LET sentences == TokenizedOf(arg)
            k == params.num_sentences
        IN  /\ Len(sentences) <= k => ret = Texts[arg]
            /\ (k < Len(sentences) /\ Len(sentences) <= FastFewSentences) =>
                   ret = Join(SubSeq(sentences, 1, k))

\* C10, amended: fast_summarize returns a text that is empty or shorter than
\* 100 characters unchanged, whatever its sentences; for a text of at least
\* 100 characters it returns the text unchanged when it has at most
\* num_sentences sentences, and otherwise, when it has at most 5, the first
\* num_sentences sentences joined by single spaces.
C10_FastShortStructuresOfLongText ==
    FastTokenized =>
        LET sentences == TokenizedOf(arg)
            k == params.num_sentences
        IN  IF Len(Texts[arg]) < MinTextLen
            THEN ret = Texts[arg]
            ELSE /\ Len(sentences) <= k => ret = Texts[arg]
                 /\ (k < Len(sentences) /\ Len(sentences) <= FastFewSentences) =>
                        ret = Join(SubSeq(sentences, 1, k))

\* the five-sentence text asked for 3: the first three sentences, joined by
\* single spaces
C10_Witness ==
    /\ FastTokenized /\ fault = "none" /\ arg = 11
    /\ params.num_sentences = 3
    /\ Len(TokenizedOf(11)) = 5
    /\ ret = JoinAt(TokenizedOf(11), <<0, 1, 2>>)
    /\ ret # Texts[11]

\* the sentences at the first position, the middle position len // 2 and the
\* position min(len - 2, len * 3 // 4) of a list, joined by single spaces
FirstMiddleNearEnd(sentences) ==
    LET n == Len(sentences)
        middle == n \div 2
        nearEnd == IF n - 2 < (n * 3) \div 4 THEN n - 2 ELSE (n * 3) \div 4
    IN  Join(<<sentences[1], sentences[middle + 1], sentences[nearEnd + 1]>>)

\* C11 as stated: fast_summarize on more than 5 sentences, and more than it
\* was asked for, returns the sentences at positions 0, len // 2 and
\* min(len - 2, len * 3 // 4) joined by single spaces, and builds no matrix
\* and ranks nothing.
C11_FastPositions ==
    FastTokenized =>
        LET sentences == TokenizedOf(arg)
        IN  (Len(sentences) > FastFewSentences
                /\ Len(sentences) > params.num_sentences) =>
                /\ ret = FirstMiddleNearEnd(sentences)
                /\ steps \cap {"matrix", "rank"} = {}

\* C11, amended: the same of a text of at least 100 characters; a text that
\* is empty or shorter than 100 characters is returned unchanged, also when
\* it has more than 5 sentences.
C11_FastPositionsOfLongText ==
    FastTokenized =>
        LET sentences == TokenizedOf(arg)
        IN  (Len(sentences) > FastFewSentences
                /\ Len(sentences) > params.num_sentences) =>
                /\ steps \cap {"matrix", "rank"} = {}
                /\ IF Len(Texts[arg]) < MinTextLen
                   THEN ret = Texts[arg]
                   ELSE ret = FirstMiddleNearEnd(sentences)

\* the eight-sentence text asked for 1: the sentences at positions 0, 4 and 6
C11_Witness ==
    /\ FastTokenized /\ fault = "none" /\ arg = 9
    /\ params.num_sentences = 1
    /\ Len(TokenizedOf(9)) = 8
    /\ ret = JoinAt(TokenizedOf(9), <<0, 4, 6>>)
    /\ picked = <<0, 4, 6>>

\* the last call was a fast_summarize in which the tokenizer raised
FastFailed ==
    /\ op = "fast_summarize"
    /\ fault = "tokenize"
    /\ Len(Texts[arg]) >= MinTextLen

\* the number of characters the fallback of fast_summarize keeps
KeptChars(t) == IF Len(t) < 500 THEN Len(t) ELSE 500

\* C12 as stated: on an exception inside fast_summarize the call returns the
\* first 500 characters of the text followed by "...", and does not raise.
C12_FastFallbackOfText ==
    FastFailed =>
        /\ ~raised
        /\ ret = SubSeq(Texts[arg], 1, KeptChars(Texts[arg])) \o <<".", ".", ".">>

\* C12, amended: on an exception inside fast_summarize the call returns the
\* first 500 characters of the text, each line break among them replaced by
\* a space, followed by "...", and does not raise.
C12_FastFallback ==
    FastFailed =>
        LET t == Texts[arg]
            m == KeptChars(t)
        IN  /\ ~raised
            /\ Len(ret) = m + 3
            /\ \A i \in 1..m : ret[i] = IF t[i] = "\n" THEN " " ELSE t[i]
            /\ \A i \in (m + 1)..(m + 3) : ret[i] = "."

\* the tokenizer raised on the three-sentence text, which came back with its
\* line break replaced by a space and the marker after it
C12_Witness ==
    /\ FastFailed /\ arg = 7
    /\ "tokenize" \in steps
    /\ Len(ret) = Len(Texts[7]) + 3
    /\ \E i \in 1..Len(Texts[7]) : Texts[7][i] = "\n" /\ ret[i] = " "

\* a text generate_summary ranks when it finds no entry for it: at least 100
\* characters, more than 3 sentences, and no library call failing
Rankable(tid) ==
    /\ Len(Texts[tid]) >= MinTextLen
    /\ fault \notin {"tokenize", "matrix", "rank"}
    /\ Len(TokenizedOf(tid)) > FewSentences

\* the first min(3, k) of the k pieces of the simple split, joined
FirstPieces(tid) ==
    LET pieces == RegexSplitOf[tid]
    IN  Join(SubSeq(pieces, 1, IF Len(pieces) < 3 THEN Len(pieces) ELSE 3))

\* r is a summary of the text at the given ratio (in tenths) and the default
\* limits: the sentences at some ascending positions, as many as the
\* truncated product brought into 3..7, joined by single spaces
IsSummaryAt(r, tid, ratio) ==
    LET sentences == Downsample(TokenizedOf(tid))
        n == Len(sentences)
        t == (n * ratio) \div 10
        m == IF t < 3 THEN 3 ELSE IF t > 7 THEN 7 ELSE t
    IN  \E pos \in SUBSET (0..(n - 1)) :
            /\ Cardinality(pos) = (IF m < n THEN m ELSE n)
            /\ r = JoinAt(sentences, SortedSeq(pos))

\* C13: batch_summarize returns one string for each text, in the order of the
\* texts, and the i-th is what generate_summary(texts[i], ratio) returns on
\* the instance as the calls before it left it: the cached summary when the
\* key was in the cache or a call before it ranked a text of that key;
\* otherwise the text itself when it is short or of 3 or fewer sentences, the
\* fallback when a library call fails, and else a summary at that ratio,
\* which the cache then holds.
C13_BatchElementwise ==
    [][op' = "batch_summarize" =>
          LET tids == BatchInputs[arg']
              ratio == params'.ratio
              Before(i) == DOMAIN cache \cup
                  {TextHashOf[tids[j]] : j \in {h \in 1..(i - 1) : Rankable(tids[h])}}
          IN  /\ ~raised'
              /\ Len(results') = Len(tids)
              /\ \A i \in 1..Len(tids) :
                    LET tid == tids[i]
                        key == TextHashOf[tid]
                    IN  IF key \in Before(i)
                        THEN results'[i] = cache'[key]
                        ELSE IF Len(Texts[tid]) < MinTextLen
                        THEN results'[i] = Texts[tid]
                        ELSE IF fault = "tokenize"
                        THEN results'[i] = FirstPieces(tid)
                        ELSE IF Len(TokenizedOf(tid)) <= FewSentences
                        THEN results'[i] = Texts[tid]
                        ELSE IF fault \in {"matrix", "rank"}
                        THEN results'[i] = FirstPieces(tid)
                        ELSE /\ key \in DOMAIN cache'
                             /\ results'[i] = cache'[key]
                             /\ IsSummaryAt(results'[i], tid, ratio)]_vars

\* the list of the two-sentence long text, the eight-sentence long text and
\* the first again, at ratio 0.6: the first comes back whole, the second as a
\* summary of four sentences, and the third as the summary of the second
C13_Witness ==
    /\ op = "batch_summarize" /\ BatchInputs[arg] = <<10, 9, 10>>
    /\ params.ratio = 6
    /\ Len(results) = 3
    /\ results[1] = Texts[10]
    /\ IsSummaryAt(results[2], 9, 6)
    /\ results[3] = results[2]

\* the last call was a _sentence_similarity
Compared == op = "_sentence_similarity"

\* C14: the similarity of sentences A and B is the similarity of B and A:
\* the value returned for (A, B) is the value the function gives for (B, A).
C14_Symmetry ==
    Compared => ret = sentence_similarity(arg.b, arg.a)

\* two different sentences that share two of their six words
C14_Witness ==
    /\ Compared /\ arg.a = 1 /\ arg.b = 2
    /\ ret = <<2, 6>>

\* the lowercase non-stopword tokens of length > 1 of a sentence: its maximal
\* runs of word characters of two characters or more, in lower case, that are
\* no stopwords
TokensOf(a) ==
    LET s == Pool[a]
        IsRun(i, j) ==
            /\ \A k \in i..j : IsWord(s[k])
            /\ i = 1 \/ ~IsWord(s[i - 1])
            /\ j = Len(s) \/ ~IsWord(s[j + 1])
    IN  {Lower(SubSeq(s, r[1], r[2])) :
            r \in {q \in (1..Len(s)) \X (1..Len(s)) : q[1] < q[2] /\ IsRun(q[1], q[2])}}
        \ stop_words

\* C15: the similarity of A and B is |intersection| / |union| of their sets
\* of lowercase non-stopword tokens of length > 1; it is at least 0 and at
\* most 1, and it is 0 when either set is empty.
C15_Jaccard ==
    Compared =>
        LET A == TokensOf(arg.a)
            B == TokensOf(arg.b)
            num == ret[1]
            den == ret[2]
        IN  /\ den > 0 /\ 0 <= num /\ num <= den
            /\ (A = {} \/ B = {}) => num = 0
            /\ (A # {} /\ B # {}) =>
                   num * Cardinality(A \cup B) = den * Cardinality(A \cap B)

\* "MARKETS markets Rallied." against "Markets rallied sharply today.": two
\* tokens against four, two of them shared
C15_Witness ==
    /\ Compared /\ arg.a = 7 /\ arg.b = 1
    /\ Cardinality(TokensOf(7)) = 2 /\ Cardinality(TokensOf(1)) = 4
    /\ ret = <<2, 4>>

\* the sentences of the preprocessed texts, by the tokenizer and by the
\* regular expression
PreSentTokenizeOf ==
    Tabulate(LAMBDA i : SentTokenize(preprocess_text(Texts[i])), Len(Texts))
PreRegexSplitOf ==
    Tabulate(LAMBDA i : RegexSplit(preprocess_text(Texts[i])), Len(Texts))

\* the sentences the environment's tokenizer gives for a preprocessed text
PreTokenizedOf(tid) ==
    IF fault = "punkt_lookup" THEN PreRegexSplitOf[tid] ELSE PreSentTokenizeOf[tid]

\* C16: for a text under 10,000 characters the sentences generate_summary
\* segments and ranks are those of the preprocessed text (lower case, only
\* word characters, whitespace and periods): the text comes back unchanged
\* when these are 3 or fewer, and else the summary is made of them.
C16_RanksPreprocessedText ==
    (Missed /\ Len(Texts[arg]) >= MinTextLen /\ Len(Texts[arg]) < PreprocessLimit
        /\ fault \in {"none", "punkt_lookup"}) =>
        LET sentences == PreTokenizedOf(arg)
        IN  IF Len(sentences) <= FewSentences
            THEN ret = Texts[arg]
            ELSE /\ \A k \in 1..Len(picked) : picked[k] < Len(sentences)
                 /\ ret = JoinAt(sentences, picked)

\* C17: across the calls of generate_summary, fast_summarize and
\* batch_summarize on one instance, every key of the cache stays in the cache
\* and keeps the summary it maps to.
C17_WriteOnce ==
    [][\A k \in DOMAIN cache : k \in DOMAIN cache' /\ cache'[k] = cache[k]]_vars

\* a batch call that stored the summary of the four-sentence text beside the
\* entry of the long text
C17_Witness ==
    /\ op = "batch_summarize" /\ BatchInputs[arg] = <<8, 8>>
    /\ TextHashOf[8] # TextHashOf[9]
    /\ DOMAIN cache = {TextHashOf[8], TextHashOf[9]}
    /\ results[1] = cache[TextHashOf[8]]
    /\ cache[TextHashOf[9]] # cache[TextHashOf[8]]

MatrixBuilt == op = "_create_similarity_matrix"

\* C19: the matrix built for n sentences has n rows of n entries, entry
\* (i, j) equals entry (j, i), the diagonal is 0 and no entry is negative, for
\* 100 sentences or fewer and for more; for 100 or fewer, the similarity is
\* computed once for each unordered pair, n (n - 1) / 2 times in all.
C19_MatrixShape ==
    MatrixBuilt =>
        LET n == arg.n
            rows == 0..(n - 1)
            m == ret.matrix
        IN  /\ DOMAIN m = rows
            /\ \A i \in rows : DOMAIN m[i] = rows
            /\ \A i \in rows : m[i][i][1] = 0
            /\ \A i \in rows : \A j \in rows :
                   /\ m[i][j] = m[j][i]
                   /\ m[i][j][1] >= 0 /\ m[i][j][2] > 0
            /\ n <= FullMatrixLimit => 2 * ret.calls = n * (n - 1)

\* a matrix of 101 sentences, built on the banded path, with an entry that is
\* not 0
C19_Witness ==
    /\ MatrixBuilt /\ arg.n = FullMatrixLimit + 1
    /\ ret.calls > 0
    /\ \E i \in 0..(arg.n - 1) : \E j \in 0..(arg.n - 1) :
           i # j /\ ret.matrix[i][j][1] > 0 /\ ret.matrix[j][i][1] > 0

\* the distance of two positions
Distance(i, j) == IF i < j THEN j - i ELSE i - j

\* C20: for more than 100 sentences entry (i, j) is the similarity of
\* sentences i and j when 0 < |i - j| <= 50 and 0 when |i - j| > 50; for 100
\* or fewer, every entry off the diagonal is the similarity of its pair.
C20_Banded ==
    MatrixBuilt =>
        LET n == arg.n
            rows == 0..(n - 1)
            m == ret.matrix
            sentences == SentenceList(n, arg.off)
            expected == [a \in PoolIds |-> [b \in PoolIds |-> sentence_similarity(a, b)]]
        IN  \A i \in rows : \A j \in rows :
                IF i = j THEN TRUE
                ELSE IF n > 100 /\ Distance(i, j) > 50
                THEN m[i][j][1] = 0
                ELSE m[i][j] = expected[sentences[i + 1]][sentences[j + 1]]

\* 152 sentences: two equal sentences 56 places apart have entry 0, two 48
\* places apart have entry 1
C20_Witness ==
    /\ MatrixBuilt /\ arg.n = 152 /\ arg.off = 0
    /\ SentenceList(152, 0)[1] = SentenceList(152, 0)[57]
    /\ ret.matrix[0][56] = <<0, 1>>
    /\ ret.matrix[0][48][1] = ret.matrix[0][48][2]


\* the last step sampled a tokenization of more than 3 sentences
Sampled == op = "sample" /\ ret.kind = "sampled"

\* C21: a tokenization of n sentences is kept whole if n <= 200, reduced to
\* the sentences at positions 0, 2, 4, ... if 200 < n <= 500 and to those at
\* positions 0, 5, 10, ... if n > 500; the list ranked is a subsequence of the
\* tokenization in its order, and 300 sentences become 150.
C21_Downsampling ==
    Sampled =>
        LET n == arg.n
            s == ret.sentences
            k == IF n <= 200 THEN 1 ELSE IF n <= 500 THEN 2 ELSE 5
        IN  /\ \A i \in 1..Len(s) : s[i] = (i - 1) * k /\ s[i] < n
            /\ \A q \in 0..(n - 1) : q % k = 0 => \E i \in 1..Len(s) : s[i] = q
            /\ \A i \in 1..Len(s) : \A j \in 1..Len(s) : i < j => s[i] < s[j]
            /\ n = 300 => Len(s) = 150

\* 501 sentences become the 101 at every fifth position, the last one among
\* them
C21_Witness ==
    /\ Sampled /\ arg.n = 501
    /\ Len(ret.sentences) = 101 /\ ret.sentences[101] = 500

\* C22: every sampled list has more than 100 sentences, so the banded branch
\* of the matrix is taken for it, and the full branch is taken only for a
\* tokenization of 4 to 100 sentences.
C22_SampledIsBanded ==
    Sampled =>
        /\ arg.n > 200 => Len(ret.sentences) > 100 /\ ret.path = "banded"
        /\ Len(ret.sentences) < arg.n => Len(ret.sentences) >= 101
        /\ ret.path = "full" <=> (4 <= arg.n /\ arg.n <= 100)

\* 201 sentences become 101, on the banded branch
C22_Witness ==
    /\ Sampled /\ arg.n = 201
    /\ Len(ret.sentences) = 101 /\ ret.path = "banded"


\* the last step selected the sentences of a summary
Selected == op = "select"

\* the positions selected, and those left out
PickedSet == Range(ret.picked)
LeftOut == (0..(arg.n - 1)) \ PickedSet

\* C23: the summary is made of the num_sentences highest-scoring sentences (of
\* all of them when there are fewer): no sentence left out has a score
\* strictly greater than a sentence of the summary.
C23_TopK ==
    Selected =>
        /\ Cardinality(PickedSet) = Min(arg.n, ret.num)
        /\ \A i \in PickedSet : \A j \in LeftOut : arg.scores[j] <= arg.scores[i]

\* a selection of 3 of 5 sentences that leaves out two of lower score than
\* the lowest selected
C23_Witness ==
    /\ Selected /\ arg.n = 5 /\ ret.num = 3
    /\ Cardinality(LeftOut) = 2
    /\ \A i \in PickedSet : \A j \in LeftOut : arg.scores[j] < arg.scores[i]
    /\ 0 \in LeftOut /\ 4 \in PickedSet /\ 1 \in PickedSet


\* the scores of the list are all equal
Uniform == \A i \in 0..(arg.n - 1) : arg.scores[i] = arg.scores[0]

\* C28: of two sentences with equal score the later one is preferred: no
\* sentence left out has the score of a selected sentence before it; when all
\* scores are equal the summary is the last num_sentences sentences of the
\* list, in document order.
C28_TieBreaking ==
    Selected =>
        /\ \A i \in PickedSet : \A j \in LeftOut :
               arg.scores[i] = arg.scores[j] => j < i
        /\ Uniform =>
               LET m == Min(arg.n, ret.num)
               IN  ret.picked = [k \in 1..m |-> arg.n - m + k - 1]

\* 5 sentences of equal score, 3 selected: the last three
C28_Witness ==
    /\ Selected /\ Uniform /\ arg.n = 5
    /\ ret.num = 3 /\ ret.picked = <<2, 3, 4>>

\* the parameters of the selection are the defaults
DefaultParams ==
    /\ arg.p.ratio = DefaultRatioTenths
    /\ arg.p.min_sentences = DefaultMinSentences
    /\ arg.p.max_sentences = DefaultMaxSentences

\* C29: the summary of a ranked list of n sentences is made of distinct
\* sentences of the list, at most min(n, max_sentences) of them when no
\* parameter is negative; with the defaults it has 3 to 7 sentences; when
\* min_sentences exceeds max_sentences, num_sentences is max_sentences.
C29_SelectionSize ==
    Selected =>
        LET k == Len(ret.picked)
        IN  /\ \A i \in 1..k : ret.picked[i] \in 0..(arg.n - 1)
            /\ \A i \in 1..k : \A j \in 1..k : i # j => ret.picked[i] # ret.picked[j]
            /\ k <= Min(arg.n, arg.p.max_sentences)
            /\ DefaultParams => 3 <= k /\ k <= 7
            /\ arg.p.min_sentences > arg.p.max_sentences =>
                   /\ ret.num = arg.p.max_sentences
                   /\ k = Min(arg.n, arg.p.max_sentences)

\* 5 sentences with min_sentences 5 over max_sentences 2 give 2
C29_Witness ==
    /\ Selected /\ arg.n = 5
    /\ arg.p.min_sentences = 5 /\ arg.p.max_sentences = 2
    /\ ret.num = 2 /\ Len(ret.picked) = 2


\* the last step tokenized a text without the resources of the sentence
\* detector
Degraded == op = "_tokenize_sentences" /\ fault = "punkt_lookup"

RECURSIVE Reassembles(_, _, _, _)
\* from piece k on, the pieces lie in t one after the other, piece k from
\* place a: each ends with a terminator and is followed by a whole run of
\* whitespace, none holds whitespace after a terminator, and the last piece
\* ends the text
Reassembles(t, pieces, k, a) ==
    LET b == a + Len(pieces[k]) - 1
    IN  /\ b <= Len(t)
        /\ SubSeq(t, a, b) = pieces[k]
        /\ \A q \in (a + 1)..b : ~(IsSpace(t[q]) /\ t[q - 1] \in Terminal)
        /\ IF k = Len(pieces) THEN b = Len(t)
           ELSE /\ b >= a
                /\ t[b] \in Terminal
                /\ \E e \in (b + 1)..Len(t) :
                       /\ \A q \in (b + 1)..e : IsSpace(t[q])
                       /\ e = Len(t) \/ ~IsSpace(t[e + 1])
                       /\ Reassembles(t, pieces, k + 1, e + 1)

\* C25: when the sentence detector fails for want of its resources
\* (LookupError), _tokenize_sentences raises nothing and returns the text split
\* at the whitespace that follows '.', '!' or '?': the pieces, put together in
\* order with the whitespace removed between them, give the text back.
C25_TokenizerDegradation ==
    Degraded =>
        /\ ret.ok
        /\ Len(ret.val) >= 1
        /\ Reassembles(Texts[arg.tid], ret.val, 1, 1)

\* three sentences separated by two spaces and by a line break give three
\* pieces
C25_Witness ==
    /\ Degraded /\ ret.ok
    /\ Texts[arg.tid] = TextThree
    /\ ret.val = <<s1, s9, s6>>


\* the largest sentence count the positions of fast_summarize are computed for
MaxFastCount == 60

\* for every sentence count from 6 on the positions of fast_summarize are
\* 0 < len // 2 < min(len - 2, len * 3 // 4) <= len - 2
PositionsWellFormed ==
    \A n \in 6..MaxFastCount :
        LET f == fast_positions(n)
        IN  /\ Len(f) = 3
            /\ f[1] = 0 /\ f[1] < f[2] /\ f[2] < f[3] /\ f[3] <= n - 2
            /\ f[2] = n \div 2

\* C30 as stated: for 6 sentences or more the three positions are distinct,
\* ascending and leave out the last sentence, and the output has exactly 3
\* sentences whatever num_sentences is; a text under 100 characters is returned
\* unchanged.
C30_FastThreeRegardless ==
    /\ PositionsWellFormed
    /\ FastTokenized =>
           LET sentences == TokenizedOf(arg)
               n == Len(sentences)
           IN  IF Len(Texts[arg]) < MinTextLen THEN ret = Texts[arg]
               ELSE n >= 6 =>
                        /\ Len(picked) = 3
                        /\ picked[1] < picked[2] /\ picked[2] < picked[3]
                        /\ picked[3] < n - 1
                        /\ ret = JoinAt(sentences, picked)

\* C30, amended: the same, the output having exactly 3 sentences whenever
\* num_sentences is less than the sentence count (1, 2, 4 and 5 among them);
\* with num_sentences at or above the sentence count the text is returned
\* unchanged.
C30_FastThree ==
    /\ PositionsWellFormed
    /\ FastTokenized =>
           LET sentences == TokenizedOf(arg)
               n == Len(sentences)
           IN  IF Len(Texts[arg]) < MinTextLen THEN ret = Texts[arg]
               ELSE n >= 6 =>
                        IF params.num_sentences < n
                        THEN /\ Len(picked) = 3
                             /\ picked[1] < picked[2] /\ picked[2] < picked[3]
                             /\ picked[3] < n - 1
                             /\ ret = JoinAt(sentences, picked)
                        ELSE ret = Texts[arg]

\* the eight-sentence text asked for 5: three sentences, at positions 0, 4
\* and 6
C30_Witness ==
    /\ FastTokenized /\ arg = 9
    /\ params.num_sentences = 5
    /\ Len(TokenizedOf(9)) = 8
    /\ picked = <<0, 4, 6>>
    /\ ret = JoinAt(TokenizedOf(9), <<0, 4, 6>>)


\* the sentences of a list at the positions of each set of positions, in
\* document order, joined by single spaces
Selections(sentences) ==
    {JoinAt(sentences, SortedSeq(S)) : S \in SUBSET (0..(Len(sentences) - 1))}
SelectionsOfSent == Tabulate(LAMBDA i : Selections(SentTokenizeOf[i]), Len(Texts))
SelectionsOfSplit == Tabulate(LAMBDA i : Selections(RegexSplitOf[i]), Len(Texts))

\* v is a ranked summary of text tid: sentences of a text of at least 100
\* characters and more than 3 sentences, in document order
RankedSummaryOf(tid, v) ==
    /\ Len(Texts[tid]) >= MinTextLen
    /\ Len(TokenizedOf(tid)) > FewSentences
    /\ v \in (IF fault = "punkt_lookup" THEN SelectionsOfSplit[tid]
              ELSE SelectionsOfSent[tid])

\* the value cache c holds under key k is a ranked summary of a text with
\* that key
CacheValueRanked(c, k) ==
    \E tid \in TextIds : TextHashOf[tid] = k /\ RankedSummaryOf(tid, c[k])

\* C27 as stated: every cache value is a ranked summary of a text of at least
\* 100 characters with more than 3 sentences, and is neither that text
\* unchanged nor its fallback output.
C27_NeverInputOrFallback ==
    \A k \in DOMAIN cache :
        \E tid \in TextIds :
            /\ TextHashOf[tid] = k
            /\ RankedSummaryOf(tid, cache[k])
            /\ cache[k] # Texts[tid]
            /\ cache[k] # simple_fallback(tid)

\* C27, amended: fast_summarize and the generate_summary calls that return the
\* short input, the text of 3 sentences or fewer, the fallback or a cached
\* value leave the cache unchanged; a call writes only new keys, each with a
\* ranked summary of a text of at least 100 characters and more than 3
\* sentences, so every cache value is such a summary (which may read the same
\* as the text when every sentence is selected).
C27_OnlyRankingWrites ==
    /\ [](\A k \in DOMAIN cache : CacheValueRanked(cache, k))
    /\ [][/\ op' = "fast_summarize" => cache' = cache
          /\ (op' = "generate_summary" /\ ~Ranked') => cache' = cache
          /\ \A k \in DOMAIN cache' :
                 IF k \in DOMAIN cache THEN cache'[k] = cache[k]
                 ELSE CacheValueRanked(cache', k)]_vars

\* the cache holds the summary of the eight-sentence text and a
\* generate_summary of a three-sentence text has just returned that text
C27_Witness ==
    /\ op = "generate_summary" /\ arg = 7 /\ ~hit /\ ~raised
    /\ ret = Texts[7]
    /\ DOMAIN cache = {TextHashOf[9]}
    /\ cache[TextHashOf[9]] # Texts[9]
    /\ CacheValueRanked(cache, TextHashOf[9])


\* every call in flight has returned
AllDone == \A c \in DOMAIN calls : calls[c].pc = "done"

\* C24: pagerank runs at most 50 iterations, and every generate_summary call
\* returns in the end.
C24_Termination ==
    /\ [](\A c \in DOMAIN calls : calls[c].iter <= MaxIter)
    /\ <>AllDone

\* a call that returned the fallback after 50 iterations without convergence
C24_Witness ==
    /\ AllDone /\ fault = "rank" /\ arg = 8
    /\ calls[1].iter = MaxIter
    /\ calls[1].ret = simple_fallback(8)
    /\ DOMAIN cache = {}


\* what one generate_summary call with the text and the parameters of the
\* calls in flight comes to, alone on a new instance
SequentialCall ==
    generate_summary([k \in {} |-> <<>>], arg, params, oracle.family)

\* the calls that have returned returned what seq returned, the cache holds
\* nothing but the summary seq returned, and holds it once every call has
\* returned if seq ranked the text
AsSequential(seq) ==
    /\ \A c \in DOMAIN calls : calls[c].pc = "done" => calls[c].ret = seq.ret
    /\ \A k \in DOMAIN cache : k = TextHashOf[arg] /\ cache[k] = seq.ret
    /\ AllDone =>
           DOMAIN cache = (IF "rank" \in seq.steps /\ fault # "rank"
                           THEN {TextHashOf[arg]} ELSE {})

\* C26: however the steps of the calls of generate_summary on one instance,
\* with the same text and parameters, are interleaved, every call returns the
\* summary a sequential call returns and the cache ends with the one entry a
\* sequential call leaves.
C26_ConcurrentCalls == AsSequential(SequentialCall)

\* two calls that both missed the cache, both ranked the text and both stored
\* their summary
C26_Witness ==
    /\ AllDone /\ arg = 8
    /\ \A c \in DOMAIN calls :
           /\ calls[c].summary = calls[c].ret
           /\ calls[c].ret = cache[TextHashOf[8]]
    /\ calls[1].ret # Texts[8]

====
